---- MODULE Spec2Model ----
(***************************************************************************)
(* Model of the photo album application: the local store (services/db),    *)
(* the captioning client (services/geminiService) and the AlbumBook        *)
(* component with its automatic analysis scheduler.                        *)
(*                                                                         *)
(* One AlbumBook view is open on album OpenAlbum.  React state updates of  *)
(* one handler continuation are batched, and the auto-analyze effect       *)
(* (cleanup of the previous timer, arming of the next one) is re-run in    *)
(* the same step whenever one of its dependencies is set.                  *)
(***************************************************************************)
EXTENDS Integers, Sequences, FiniteSets, TLC

VARIABLES
    dbAlbums,          \* store: album id -> album record
    dbPhotos,          \* store: photo id -> photo record
    nextPhotoId,       \* store: auto-increment key of the photos table
    tx,                \* store: the deleteAlbum transaction in progress
    lastTx,            \* history: the deleteAlbum call settled by the last step
    photos,            \* AlbumBook: in-memory photo list (useState)
    analyzingIds,      \* AlbumBook: set of photo ids in flight (useState)
    isAutoAnalyzing,   \* AlbumBook: run flag (useState)
    lastAnalysisTime,  \* AlbumBook: start time of the last scheduled request (useRef)
    timer,             \* AlbumBook: the pending setTimeout(processNext) with its closure
    calls,             \* handleAnalyze invocations in progress: photo id -> position
    loadPending,       \* handlePhotosAdded: loadPhotos still to run
    now,               \* Date.now()
    issued,            \* history: requests issued by the scheduler in the current run
    lastDone,          \* history: the analysis attempt completed by the last step
    lastStop,          \* history: why the last step stopped the automatic run
    importing,         \* AlbumShelf: the handleFilesSelected invocation in progress
    resize,            \* the image being scaled down for a request or an export
    selectedAlbumId,   \* App: id of the selected album (useState), 0 for null
    currentAlbum,      \* App: id of the album fetched last (useState), 0 for null
    fetches,           \* App: fetchAlbum calls waiting for getAlbums
    orphaned,          \* requests of handleAnalyze calls whose AlbumBook was unmounted
    lastRequest,       \* history: start time of the last request of the scheduler
    lastWrite,         \* history: the update call settled by the last step
    currentPage,       \* AlbumBook: index of the open page (useState)
    removing,          \* AlbumBook: confirmed removals waiting for deletePhoto
    exif               \* the getExifData invocation in progress

vars == <<dbAlbums, dbPhotos, nextPhotoId, tx, lastTx, photos, analyzingIds,
          isAutoAnalyzing, lastAnalysisTime, timer, calls, loadPending,
          now, issued, lastDone, lastStop, importing, resize,
          selectedAlbumId, currentAlbum, fetches, orphaned, lastRequest,
          lastWrite, currentPage, removing, exif>>

storeVars == <<dbAlbums, dbPhotos, nextPhotoId, tx, lastTx>>
histVars == <<issued, lastRequest>>
pageVars == <<currentPage, removing>>
appVars == <<selectedAlbumId, currentAlbum, fetches, orphaned>>
utilVars == <<lastWrite, exif>>
restVars == <<importing, resize, appVars, utilVars>>

----------------------------------------------------------------------------
(* Bounds *)

StartTime == 100000     \* Date.now() when the view is opened
TickStep == 11000       \* granularity of the clock
MaxTime == 133000       \* the clock stops here
MaxPhotoId == 4         \* photos are added while the next key is <= this
MaxFiles == 3           \* files of one selection in the import dialog
MaxHundreds == 20       \* image sides go up to 100 * this + 1 pixels

(* Program constants *)

RATE_LIMIT_DELAY == 22000
MAX_SIZE == 800
MAX_DIMENSION == 1200

OpenAlbum == 1
OtherAlbum == 2

----------------------------------------------------------------------------
(* Records *)

NoTimer == [armed |-> FALSE]
NoTx == [state |-> "idle"]
NoDone == [id |-> 0]
NoImport == [state |-> "idle"]
NoResize == [state |-> "idle"]
NoWrite == [table |-> "none"]
NoExif == [state |-> "idle"]

\* { ...rec, ...partial }: the fields of partial replace those of rec
Merge(rec, partial) ==
    [k \in DOMAIN rec |-> IF k \in DOMAIN partial THEN partial[k] ELSE rec[k]]

\* addPhotoToAlbum's record
NewPhoto(id, albumId, lastModified) ==
    [id |-> id, albumId |-> albumId, timestamp |-> lastModified,
     description |-> "none", location |-> "none", landmarks |-> "none",
     processed |-> FALSE, filter |-> "original"]

NoPhoto == NewPhoto(0, 0, 0)

----------------------------------------------------------------------------
(* Local store *)

\* an update that stores the changes in place of the record
TableReplace(table, id, changes) ==
    IF id \in DOMAIN table THEN [table EXCEPT ![id] = changes] ELSE table

\* an update that creates the record when the key is absent (a put)
TableUpsert(table, id, changes) ==
    [k \in DOMAIN table \cup {id} |->
        IF k # id THEN table[k]
        ELSE IF id \in DOMAIN table THEN Merge(table[id], changes) ELSE changes]

\* db.photos.update(id, changes): a merge on the record, nothing when the key is absent
TableUpdate(table, id, changes) ==
    IF id \in DOMAIN table
    THEN [table EXCEPT ![id] = Merge(table[id], changes)]
    ELSE table

\* db.photos.delete(id)
TableDelete(table, id) == [k \in DOMAIN table \ {id} |-> table[k]]

\* an update that flags processed only when it writes a description
UpdatePhotoMetadataChangesDescribed(metadata) ==
    [k \in DOMAIN metadata \cup {"processed"} |->
        IF k = "processed" THEN "description" \in DOMAIN metadata ELSE metadata[k]]

\* { ...metadata, processed: true }
UpdatePhotoMetadataChanges(metadata) ==
    [k \in DOMAIN metadata \cup {"processed"} |->
        IF k = "processed" THEN TRUE ELSE metadata[k]]

updatePhotoMetadata(table, id, metadata) ==
    TableUpdate(table, id, UpdatePhotoMetadataChanges(metadata))

deletePhoto(table, id) == TableDelete(table, id)

\* sort of loadPhotos: stable, ascending timestamp, applied to records in key order
RECURSIVE InsertByTimestamp(_, _)
InsertByTimestamp(p, s) ==
    IF s = <<>> THEN <<p>>
    ELSE IF p.timestamp < s[1].timestamp THEN <<p>> \o s
    ELSE <<s[1]>> \o InsertByTimestamp(p, Tail(s))

RECURSIVE SortKeysDescending(_, _)
SortKeysDescending(table, keys) ==
    IF keys = {} THEN <<>>
    ELSE LET k == CHOOSE x \in keys : \A y \in keys : x >= y
         IN InsertByTimestamp(table[k], SortKeysDescending(table, keys \ {k}))

\* getAlbumPhotos(albumId) followed by data.sort(...)
LoadedPhotos(table, albumId) ==
    SortKeysDescending(table, {k \in DOMAIN table : table[k].albumId = albumId})

\* a delete by primary key where the albumId index is meant
DeleteWherePrimaryKey(table, id) == [k \in DOMAIN table \ {id} |-> table[k]]

\* db.photos.where('albumId').equals(id).delete()
DeleteWhereAlbumId(table, id) ==
    [k \in {x \in DOMAIN table : table[x].albumId # id} |-> table[k]]

\* writes that are not undone when a later step fails
RollbackNone(before, working) == working

\* what an aborted transaction leaves in a table: the state before it
Rollback(before, working) == before

\* deleteAlbum(id): the transaction on albums and photos is opened; its writes
\* go to its own view of the two tables until it commits
DeleteAlbumBegin(id) ==
    /\ tx.state = "idle"
    /\ tx' = [state |-> "open", id |-> id, photos |-> dbPhotos, albums |-> dbAlbums]
    /\ lastTx' = NoTx
    /\ UNCHANGED <<dbAlbums, dbPhotos, nextPhotoId>>

\* first request of the transaction: the photos of the album are deleted
TxDeletePhotos ==
    /\ tx.state = "open"
    /\ tx' = [tx EXCEPT !.state = "photosDeleted",
                        !.photos = DeleteWhereAlbumId(tx.photos, tx.id)]
    /\ lastTx' = NoTx
    /\ UNCHANGED <<dbAlbums, dbPhotos, nextPhotoId>>

\* second request of the transaction: db.albums.delete(id)
TxDeleteAlbum ==
    /\ tx.state = "photosDeleted"
    /\ tx' = [tx EXCEPT !.state = "albumDeleted",
                        !.albums = TableDelete(tx.albums, tx.id)]
    /\ lastTx' = NoTx
    /\ UNCHANGED <<dbAlbums, dbPhotos, nextPhotoId>>

\* the transaction commits and deleteAlbum resolves
TxCommit ==
    /\ tx.state = "albumDeleted"
    /\ dbPhotos' = tx.photos
    /\ dbAlbums' = tx.albums
    /\ tx' = NoTx
    /\ lastTx' = [state |-> "committed", id |-> tx.id, at |-> tx.state,
                  photos |-> dbPhotos, albums |-> dbAlbums]
    /\ UNCHANGED nextPhotoId

\* a request of the transaction fails or the transaction is aborted: deleteAlbum
\* rejects
TxFail ==
    /\ tx.state \in {"open", "photosDeleted", "albumDeleted"}
    /\ dbPhotos' = Rollback(dbPhotos, tx.photos)
    /\ dbAlbums' = Rollback(dbAlbums, tx.albums)
    /\ tx' = NoTx
    /\ lastTx' = [state |-> "failed", id |-> tx.id, at |-> tx.state,
                  photos |-> dbPhotos, albums |-> dbAlbums]
    /\ UNCHANGED nextPhotoId

\* a read that sees the writes a transaction has not committed
VisibleWorking(committed, working) == working

\* what a read outside a read-write transaction on the same tables sees: the
\* committed table, never the writes the transaction has made so far
Visible(committed, working) == committed

\* getAlbums(): db.albums.toArray()
getAlbums ==
    Visible(dbAlbums, IF tx.state = "idle" THEN dbAlbums ELSE tx.albums)

\* getAlbumPhotos(albumId): db.photos.where('albumId').equals(albumId).toArray()
getAlbumPhotos(albumId) ==
    LET table == Visible(dbPhotos, IF tx.state = "idle" THEN dbPhotos ELSE tx.photos)
    IN [k \in {x \in DOMAIN table : table[x].albumId = albumId} |-> table[k]]

\* db.photos.add(record): the table with the record under the next key
addPhotoToAlbum(table, key, albumId, lastModified) ==
    [k \in DOMAIN table \cup {key} |->
        IF k = key THEN NewPhoto(key, albumId, lastModified) ELSE table[k]]

\* setAlbumCover(albumId, photoId)
setAlbumCover(table, albumId, photoId) ==
    TableUpdate(table, albumId, [coverPhotoId |-> photoId])


----------------------------------------------------------------------------
(* Captioning client *)

\* what the remote service can answer to generateContent
Responses ==
    { [kind |-> "ok", body |-> [description |-> "ai"]],
      [kind |-> "ok", body |-> [description |-> "ai", location |-> "aiLoc",
                                landmarks |-> "lm"]],
      [kind |-> "malformed"],      \* JSON.parse throws
      [kind |-> "empty"],          \* response.text is empty
      [kind |-> "error"],          \* the request or the image decoding rejects
      [kind |-> "quota"] }         \* the service rejects with 429

NonFatalKinds == {"malformed", "empty", "error"}

\* analyzePhoto: the parsed body, and for everything thrown inside its try
\* block (the 429 rejection included) the fallback result of its catch
analyzePhoto(resp) ==
    IF resp.kind = "ok"
    THEN [ret |-> "value", value |-> resp.body]
    ELSE [ret |-> "value", value |-> [description |-> "unavailable"]]

----------------------------------------------------------------------------
(* AlbumBook *)

SeqToSet(s) == {s[i] : i \in 1..Len(s)}

\* a find that returns the last match instead of the first
FindLast(ph, an) ==
    LET idx == {i \in 1..Len(ph) : ~ph[i].processed /\ ph[i].id \notin an}
    IN IF idx = {} THEN 0 ELSE CHOOSE i \in idx : \A j \in idx : i >= j

\* photos.find(pred): index of the first photo satisfying it, 0 when none
FindNext(ph, an) ==
    LET idx == {i \in 1..Len(ph) : ~ph[i].processed /\ ph[i].id \notin an}
    IN IF idx = {} THEN 0 ELSE CHOOSE i \in idx : \A j \in idx : i <= j

\* prev.map(p => p.id === id ? { ...p, ...changes } : p)
MapPhoto(ph, id, changes) ==
    [i \in 1..Len(ph) |-> IF ph[i].id = id THEN Merge(ph[i], changes) ELSE ph[i]]

\* prev.filter(p => p.id !== id)
RECURSIVE FilterOut(_, _)
FilterOut(ph, id) ==
    IF ph = <<>> THEN <<>>
    ELSE IF ph[1].id = id THEN FilterOut(Tail(ph), id)
    ELSE <<ph[1]>> \o FilterOut(Tail(ph), id)

Max(a, b) == IF a >= b THEN a ELSE b

\* a fixed delay after the previous request has completed, whatever its start
DelayFixed(nowv, last) == 4000

\* delay = Math.max(0, RATE_LIMIT_DELAY - (now - lastAnalysisTime.current))
Delay(nowv, last) == Max(0, RATE_LIMIT_DELAY - (nowv - last))

\* an effect whose cleanup does not clear the pending timeout
AutoAnalyzeEffectNoCleanup(old, isAuto, ph, an, nowv, last) ==
    IF isAuto /\ an = {}
    THEN [armed |-> TRUE, due |-> nowv + Max(0, RATE_LIMIT_DELAY - (nowv - last)),
          isAutoAnalyzing |-> isAuto, photos |-> ph, analyzingIds |-> an]
    ELSE old

\* an effect that arms the timeout also while a request is in flight
AutoAnalyzeEffectBusy(old, isAuto, ph, an, nowv, last) ==
    IF isAuto
    THEN [armed |-> TRUE, due |-> nowv + Max(0, RATE_LIMIT_DELAY - (nowv - last)),
          isAutoAnalyzing |-> isAuto, photos |-> ph, analyzingIds |-> an]
    ELSE NoTimer

\* The auto-analyze effect, run after a render in which isAutoAnalyzing, photos
\* or analyzingIds was set: the cleanup clears the timeout of the previous run
\* of the effect, then a timeout is armed when running and not busy.  The
\* callback closes over the values of that render.
AutoAnalyzeEffect(old, isAuto, ph, an, nowv, last) ==
    IF isAuto /\ an = {}
    THEN [armed |-> TRUE, due |-> nowv + Delay(nowv, last),
          isAutoAnalyzing |-> isAuto, photos |-> ph, analyzingIds |-> an]
    ELSE NoTimer

\* state set before the store write has resolved, whatever its outcome
BeforeWrite(ok, before, after) == after

\* try { await <store write>; setState(...) } catch { }: the statements after
\* the await run only when the write resolved, a rejection skips them
AfterWrite(ok, before, after) == IF ok THEN after ELSE before

\* a handleAnalyze invocation that has just issued its request
\* a pending handleAnalyze call; requests counts the requests of the view that
\* are in flight for the photo
NewCall(by) == [by |-> by, stopped |-> FALSE, requests |-> 1]

AddCall(id, c) ==
    [k \in DOMAIN calls \cup {id} |->
        IF k # id THEN calls[k]
        ELSE IF id \in DOMAIN calls
             THEN [c EXCEPT !.requests = calls[id].requests + 1]
             ELSE c]

\* a guard that lets every call through
NeverAnalyzing(an, id) == FALSE

\* analyzingIds.has(photo.id): the guard of handleAnalyze, and the disabled
\* attribute of the AI Note button
AlreadyAnalyzing(an, id) == id \in an
DropCall(id) == [k \in DOMAIN calls \ {id} |-> calls[k]]

\* a ref that starts again from its initial value with every run
RefReset(current) == 0

\* lastAnalysisTime = useRef(0): the ref object lives as long as the mounted
\* component, and a render caused by the toggle leaves its current value alone
RefKept(current) == current

\* the Auto-Fill button: setIsAutoAnalyzing(!isAutoAnalyzing)
ToggleAuto ==
    /\ isAutoAnalyzing' = ~isAutoAnalyzing
    /\ lastAnalysisTime' = RefKept(lastAnalysisTime)
    /\ timer' = AutoAnalyzeEffect(timer, ~isAutoAnalyzing, photos, analyzingIds,
                                  now, lastAnalysisTime')
    /\ issued' = IF isAutoAnalyzing THEN issued ELSE <<>>
    /\ calls' = [k \in DOMAIN calls |->
                    IF isAutoAnalyzing /\ calls[k].by = "auto"
                    THEN [calls[k] EXCEPT !.stopped = TRUE] ELSE calls[k]]
    /\ lastDone' = NoDone
    /\ lastStop' = IF isAutoAnalyzing THEN "UserCancelled" ELSE "none"
    /\ UNCHANGED <<storeVars, photos, analyzingIds, loadPending, now,
                   lastRequest, pageVars>>

\* the timeout fires: processNext of the closure, and the synchronous start
\* of handleAnalyze(nextPhoto) up to its first await
TimerFires ==
    /\ timer.armed
    /\ now >= timer.due
    /\ LET i == FindNext(timer.photos, timer.analyzingIds) IN
       IF ~timer.isAutoAnalyzing
       THEN /\ timer' = NoTimer
            /\ UNCHANGED <<isAutoAnalyzing, lastAnalysisTime, analyzingIds,
                           calls, issued, lastRequest>>
       ELSE IF i = 0
       THEN /\ isAutoAnalyzing' = FALSE
            /\ timer' = AutoAnalyzeEffect(NoTimer, FALSE, photos, analyzingIds,
                                          now, lastAnalysisTime)
            /\ UNCHANGED <<lastAnalysisTime, analyzingIds, calls, issued,
                           lastRequest>>
       ELSE LET p == timer.photos[i] IN
            /\ lastAnalysisTime' = now
            /\ IF AlreadyAnalyzing(timer.analyzingIds, p.id)
               THEN /\ timer' = NoTimer
                    /\ UNCHANGED <<analyzingIds, calls, issued, lastRequest>>
               ELSE /\ analyzingIds' = analyzingIds \cup {p.id}
                    /\ calls' = AddCall(p.id, NewCall("auto"))
                    /\ issued' = Append(issued,
                          [id |-> p.id, time |-> now, timestamp |-> p.timestamp,
                           listed |-> {q.id : q \in SeqToSet(timer.photos)},
                           first |-> (FindNext(photos, analyzingIds) # 0
                                      /\ photos[FindNext(photos, analyzingIds)].id = p.id),
                           running |-> isAutoAnalyzing,
                           prev |-> lastRequest])
                    /\ lastRequest' = now
                    /\ timer' = AutoAnalyzeEffect(NoTimer, isAutoAnalyzing, photos,
                                                  analyzingIds', now, now)
            /\ UNCHANGED isAutoAnalyzing
    /\ lastDone' = NoDone
    /\ lastStop' = IF isAutoAnalyzing /\ ~isAutoAnalyzing' THEN "Completed" ELSE "none"
    /\ UNCHANGED <<storeVars, photos, loadPending, now, pageVars>>

\* the AI Note button of a photo: handleAnalyze(photo) up to its first await
ManualAnalyze(id) ==
    /\ \E i \in 1..Len(photos) : photos[i].id = id
    /\ ~AlreadyAnalyzing(analyzingIds, id)
    /\ analyzingIds' = analyzingIds \cup {id}
    /\ calls' = AddCall(id, NewCall("manual"))
    /\ timer' = AutoAnalyzeEffect(timer, isAutoAnalyzing, photos, analyzingIds',
                                  now, lastAnalysisTime)
    /\ lastDone' = NoDone
    /\ lastStop' = "none"
    /\ UNCHANGED <<storeVars, photos, isAutoAnalyzing, lastAnalysisTime,
                   loadPending, now, histVars, pageVars>>

\* handleAnalyze: the metadata it hands to updatePhotoMetadata for what
\* analyzePhoto returned (the result, or {} for null)
HandleAnalyzeMetadata(r) == IF r.ret = "value" THEN r.value ELSE <<>>

\* the record of a photo in the store and in the in-memory list (NoPhoto when absent)
StoredPhoto(table, id) == IF id \in DOMAIN table THEN table[id] ELSE NoPhoto

ListedPhoto(ph, id) ==
    IF \E i \in 1..Len(ph) : ph[i].id = id
    THEN ph[CHOOSE i \in 1..Len(ph) : ph[i].id = id]
    ELSE NoPhoto

\* the in-memory update of handleAnalyze: { ...p, ...result, processed: true }
AnalyzedChanges(result) ==
    [k \in DOMAIN result \cup {"processed"} |->
        IF k = "processed" THEN TRUE ELSE result[k]]

\* a handler that leaves the id in the set when it ends
FinallyKeep(an, id) == an

\* finally of handleAnalyze: setAnalyzingIds(prev => { next.delete(id) })
FinallyRemove(an, id) == an \ {id}

\* The rest of a pending handleAnalyze: analyzePhoto settles on the service's
\* answer resp; a returned value is written to the store, the write resolves
\* (ok) or rejects, and setPhotos or catch runs, then finally.  The write is
\* queued when analyzePhoto returns and store requests complete in the order
\* they are queued, so the write and its continuation are one step.
AnalysisCompletes(id, resp, ok) ==
    /\ id \in DOMAIN calls
    /\ tx.state = "idle"
    /\ LET r == analyzePhoto(resp)
           wrote == r.ret # "throw" /\ ok
       IN
       /\ dbPhotos' = IF wrote
                      THEN updatePhotoMetadata(dbPhotos, id, HandleAnalyzeMetadata(r))
                      ELSE dbPhotos
       /\ photos' = AfterWrite(wrote, photos,
                        MapPhoto(photos, id, AnalyzedChanges(HandleAnalyzeMetadata(r))))
       /\ isAutoAnalyzing' =
             IF r.ret = "throw" /\ r.message = "FATAL_QUOTA_EXCEEDED"
             THEN FALSE ELSE isAutoAnalyzing
       /\ lastDone' = [id |-> id, kind |-> resp.kind, by |-> calls[id].by,
                       wrote |-> wrote, stopped |-> calls[id].stopped,
                       store |-> StoredPhoto(dbPhotos, id),
                       mem |-> ListedPhoto(photos, id)]
    /\ lastStop' = IF isAutoAnalyzing /\ ~isAutoAnalyzing'
                   THEN "FatalQuotaExceeded" ELSE "none"
    /\ analyzingIds' = FinallyRemove(analyzingIds, id)
    /\ calls' = DropCall(id)
    /\ timer' = AutoAnalyzeEffect(timer, isAutoAnalyzing', photos', analyzingIds',
                                  now, lastAnalysisTime)
    /\ UNCHANGED <<dbAlbums, nextPhotoId, tx, lastTx, lastAnalysisTime,
                   loadPending, now, histVars, pageVars>>

Filters == {"original", "sepia"}

\* handleUpdateFilter(photoId, filter)
UpdateFilter(id, filter, ok) ==
    /\ \E i \in 1..Len(photos) : photos[i].id = id
    /\ tx.state = "idle"
    /\ dbPhotos' = IF ok THEN updatePhotoMetadata(dbPhotos, id, [filter |-> filter])
                   ELSE dbPhotos
    /\ photos' = AfterWrite(ok, photos, MapPhoto(photos, id, [filter |-> filter]))
    /\ timer' = AfterWrite(ok, timer,
                    AutoAnalyzeEffect(timer, isAutoAnalyzing, photos',
                                      analyzingIds, now, lastAnalysisTime))
    /\ lastDone' = NoDone
    /\ lastStop' = "none"
    /\ UNCHANGED <<dbAlbums, nextPhotoId, tx, lastTx, analyzingIds, isAutoAnalyzing,
                   lastAnalysisTime, calls, loadPending, now, histVars, pageVars>>

EditDates == {10, 60}
LateDates == {60}

\* saveEditing(photoId) with the edit buffers the user typed; valid is
\* !isNaN(new Date(editDate).getTime())
SaveEditing(id, valid, date, ok) ==
    /\ \E i \in 1..Len(photos) : photos[i].id = id
    /\ tx.state = "idle"
    /\ dbPhotos' = IF ok
                   THEN updatePhotoMetadata(dbPhotos, id,
                            [description |-> "user", location |-> "userLoc",
                             timestamp |-> IF valid THEN date ELSE now])
                   ELSE dbPhotos
    /\ photos' = AfterWrite(ok, photos,
                    MapPhoto(photos, id,
                        IF valid
                        THEN [description |-> "user", location |-> "userLoc",
                              timestamp |-> date, processed |-> TRUE]
                        ELSE [description |-> "user", location |-> "userLoc",
                              processed |-> TRUE]))
    /\ timer' = AfterWrite(ok, timer,
                    AutoAnalyzeEffect(timer, isAutoAnalyzing, photos',
                                      analyzingIds, now, lastAnalysisTime))
    /\ lastDone' = NoDone
    /\ lastStop' = "none"
    /\ UNCHANGED <<dbAlbums, nextPhotoId, tx, lastTx, analyzingIds, isAutoAnalyzing,
                   lastAnalysisTime, calls, loadPending, now, histVars, pageVars>>

\* Pagination of AlbumBook: two photos per page; slice(start, start + 2) of a
\* negative page is empty, as Array.prototype.slice(-2, 0) is.
photosPerPage == 2

TotalPages(ph) == (Len(ph) + photosPerPage - 1) \div photosPerPage

CurrentPhotos(ph, page) ==
    IF page < 0 THEN <<>>
    ELSE SubSeq(ph, page * photosPerPage + 1,
                IF (page + 1) * photosPerPage < Len(ph)
                THEN (page + 1) * photosPerPage ELSE Len(ph))

\* The page update of handleRemovePhoto: len and page are the values its
\* closure captured at the render it was created in, p the state the functional
\* update setCurrentPage(p => p - 1) is applied to.
PageAfterRemove(len, page, p) == IF len = 1 /\ page > 0 THEN p - 1 ELSE p

\* handleRemovePhoto(photoId), confirmed in the dialog; the removal and the
\* state updates that follow it are taken in one step.
RemovePhoto(id, ok) ==
    /\ \E i \in 1..Len(photos) : photos[i].id = id
    /\ tx.state = "idle"
    /\ dbPhotos' = IF ok THEN deletePhoto(dbPhotos, id) ELSE dbPhotos
    /\ photos' = AfterWrite(ok, photos, FilterOut(photos, id))
    /\ currentPage' = AfterWrite(ok, currentPage,
                          PageAfterRemove(Len(CurrentPhotos(photos, currentPage)),
                                          currentPage, currentPage))
    /\ timer' = AfterWrite(ok, timer,
                    AutoAnalyzeEffect(timer, isAutoAnalyzing, photos',
                                      analyzingIds, now, lastAnalysisTime))
    /\ lastDone' = NoDone
    /\ lastStop' = "none"
    /\ UNCHANGED <<dbAlbums, nextPhotoId, tx, lastTx, analyzingIds, isAutoAnalyzing,
                   lastAnalysisTime, calls, loadPending, now, histVars, removing>>

AddTimes == {30}

\* handlePhotosAdded with one image file, up to await loadPhotos()
PhotosAdded(lastModified, ok) ==
    /\ nextPhotoId <= MaxPhotoId
    /\ ~loadPending
    /\ tx.state = "idle"
    /\ IF ok
       THEN /\ dbPhotos' = addPhotoToAlbum(dbPhotos, nextPhotoId, OpenAlbum, lastModified)
            /\ nextPhotoId' = nextPhotoId + 1
            /\ loadPending' = TRUE
       ELSE UNCHANGED <<dbPhotos, nextPhotoId, loadPending>>
    /\ lastDone' = NoDone
    /\ lastStop' = "none"
    /\ UNCHANGED <<dbAlbums, tx, lastTx, photos, analyzingIds, isAutoAnalyzing,
                   lastAnalysisTime, timer, calls, now, histVars, pageVars>>

\* loadPhotos of handlePhotosAdded: getAlbumPhotos resolves, sort, setPhotos
LoadPhotosDone ==
    /\ loadPending
    /\ tx.state = "idle"
    /\ photos' = LoadedPhotos(dbPhotos, OpenAlbum)
    /\ loadPending' = FALSE
    /\ timer' = AutoAnalyzeEffect(timer, isAutoAnalyzing, photos', analyzingIds,
                                  now, lastAnalysisTime)
    /\ lastDone' = NoDone
    /\ lastStop' = "none"
    /\ UNCHANGED <<storeVars, analyzingIds, isAutoAnalyzing, lastAnalysisTime,
                   calls, now, histVars, pageVars>>

\* handleSetCover(photoId): no try around the write, a rejection changes nothing
SetCover(id, ok) ==
    /\ \E i \in 1..Len(photos) : photos[i].id = id
    /\ tx.state = "idle"
    /\ dbAlbums' = IF ok THEN setAlbumCover(dbAlbums, OpenAlbum, id) ELSE dbAlbums
    /\ lastDone' = NoDone
    /\ lastStop' = "none"
    /\ UNCHANGED <<dbPhotos, nextPhotoId, tx, lastTx, photos, analyzingIds,
                   isAutoAnalyzing, lastAnalysisTime, timer, calls, loadPending,
                   now, histVars, pageVars>>

\* time passes
Tick ==
    /\ now + TickStep <= MaxTime
    /\ now' = now + TickStep
    /\ lastDone' = NoDone
    /\ lastStop' = "none"
    /\ UNCHANGED <<storeVars, photos, analyzingIds, isAutoAnalyzing,
                   lastAnalysisTime, timer, calls, loadPending, histVars, pageVars>>

----------------------------------------------------------------------------
(* The open album view with its scheduler *)

InitPhotos ==
    [k \in {1, 2, 3} |->
        IF k = 1 THEN NewPhoto(1, OpenAlbum, 20)
        ELSE IF k = 2 THEN NewPhoto(2, OpenAlbum, 40)
        ELSE NewPhoto(3, OtherAlbum, 30)]

Init ==
    /\ dbAlbums = [a \in {OpenAlbum, OtherAlbum} |-> [id |-> a, coverPhotoId |-> 0]]
    /\ dbPhotos = InitPhotos
    /\ nextPhotoId = 4
    /\ tx = NoTx
    /\ lastTx = NoTx
    /\ photos = LoadedPhotos(InitPhotos, OpenAlbum)
    /\ analyzingIds = {}
    /\ isAutoAnalyzing = FALSE
    /\ lastAnalysisTime = 0
    /\ timer = NoTimer
    /\ calls = <<>>
    /\ loadPending = FALSE
    /\ now = StartTime
    /\ issued = <<>>
    /\ lastDone = NoDone
    /\ lastStop = "none"
    /\ importing = NoImport
    /\ resize = NoResize
    /\ selectedAlbumId = OpenAlbum
    /\ currentAlbum = OpenAlbum
    /\ fetches = <<>>
    /\ orphaned = <<>>
    /\ lastRequest = 0
    /\ lastWrite = NoWrite
    /\ currentPage = 0
    /\ removing = {}
    /\ exif = NoExif

PhotoIds == 1..MaxPhotoId

\* automatic scheduling alone: no manual per-photo analysis, while the user
\* edits and removes photos and toggles the scheduler
Next ==
    \/ ToggleAuto /\ UNCHANGED restVars
    \/ TimerFires /\ UNCHANGED restVars
    \/ \E id \in PhotoIds, resp \in Responses, ok \in BOOLEAN :
          AnalysisCompletes(id, resp, ok) /\ UNCHANGED restVars
    \/ \E id \in PhotoIds, date \in EditDates, ok \in BOOLEAN :
          SaveEditing(id, TRUE, date, ok) /\ UNCHANGED restVars
    \/ \E id \in PhotoIds, ok \in BOOLEAN : RemovePhoto(id, ok) /\ UNCHANGED restVars
    \/ Tick /\ UNCHANGED restVars

Spec == Init /\ [][Next]_vars

\* automatic scheduling alone, while the user edits and adds photos
NextAdd ==
    \/ ToggleAuto /\ UNCHANGED restVars
    \/ TimerFires /\ UNCHANGED restVars
    \/ \E id \in PhotoIds, resp \in Responses, ok \in BOOLEAN :
          AnalysisCompletes(id, resp, ok) /\ UNCHANGED restVars
    \/ \E id \in PhotoIds, date \in LateDates, ok \in BOOLEAN :
          SaveEditing(id, TRUE, date, ok) /\ UNCHANGED restVars
    \/ \E lm \in AddTimes, ok \in BOOLEAN : PhotosAdded(lm, ok) /\ UNCHANGED restVars
    \/ LoadPhotosDone /\ UNCHANGED restVars
    \/ Tick /\ UNCHANGED restVars

SpecAdd == Init /\ [][NextAdd]_vars

\* an album view opened on an album of one photo, in a store whose key
\* generator has advanced
InitEditPhotos ==
    [k \in {1, 3} |->
        IF k = 1 THEN NewPhoto(1, OpenAlbum, 20) ELSE NewPhoto(3, OtherAlbum, 30)]

InitEdit ==
    /\ dbAlbums = [a \in {OpenAlbum, OtherAlbum} |-> [id |-> a, coverPhotoId |-> 0]]
    /\ dbPhotos = InitEditPhotos
    /\ nextPhotoId = MaxPhotoId
    /\ tx = NoTx
    /\ lastTx = NoTx
    /\ photos = LoadedPhotos(InitEditPhotos, OpenAlbum)
    /\ analyzingIds = {}
    /\ isAutoAnalyzing = FALSE
    /\ lastAnalysisTime = 0
    /\ timer = NoTimer
    /\ calls = <<>>
    /\ loadPending = FALSE
    /\ now = StartTime
    /\ issued = <<>>
    /\ lastDone = NoDone
    /\ lastStop = "none"
    /\ importing = NoImport
    /\ resize = NoResize
    /\ selectedAlbumId = OpenAlbum
    /\ currentAlbum = OpenAlbum
    /\ fetches = <<>>
    /\ orphaned = <<>>
    /\ lastRequest = 0
    /\ lastWrite = NoWrite
    /\ currentPage = 0
    /\ removing = {}
    /\ exif = NoExif

\* a full answer and an empty one
EditResponses ==
    {r \in Responses :
        r.kind = "empty" \/ (r.kind = "ok" /\ "location" \in DOMAIN r.body)}

\* the handlers of the open album view with the scheduler off: manual analysis,
\* filters, edits, covers, removed and added photos
NextEdit ==
    \/ \E id \in PhotoIds : ManualAnalyze(id) /\ UNCHANGED restVars
    \/ \E id \in PhotoIds, resp \in EditResponses, ok \in BOOLEAN :
          AnalysisCompletes(id, resp, ok) /\ UNCHANGED restVars
    \/ \E id \in PhotoIds, ok \in BOOLEAN :
          UpdateFilter(id, "sepia", ok) /\ UNCHANGED restVars
    \/ \E id \in PhotoIds, date \in LateDates, ok \in BOOLEAN :
          SaveEditing(id, TRUE, date, ok) /\ UNCHANGED restVars
    \/ \E id \in PhotoIds, ok \in BOOLEAN : RemovePhoto(id, ok) /\ UNCHANGED restVars
    \/ \E id \in PhotoIds, ok \in BOOLEAN : SetCover(id, ok) /\ UNCHANGED restVars
    \/ \E lm \in AddTimes, ok \in BOOLEAN : PhotosAdded(lm, ok) /\ UNCHANGED restVars
    \/ LoadPhotosDone /\ UNCHANGED restVars

SpecEdit == InitEdit /\ [][NextEdit]_vars

----------------------------------------------------------------------------
(* The store under the album shelf: no album view is open *)

AlbumIds == {OpenAlbum, OtherAlbum}

\* an image file is imported into an album
StoreAddPhoto(albumId, lastModified) ==
    /\ tx.state = "idle"
    /\ nextPhotoId <= MaxPhotoId
    /\ dbPhotos' = addPhotoToAlbum(dbPhotos, nextPhotoId, albumId, lastModified)
    /\ nextPhotoId' = nextPhotoId + 1
    /\ lastTx' = NoTx
    /\ UNCHANGED <<dbAlbums, tx>>

\* a photo is removed
StoreDeletePhoto(id) ==
    /\ tx.state = "idle"
    /\ id \in DOMAIN dbPhotos
    /\ dbPhotos' = deletePhoto(dbPhotos, id)
    /\ lastTx' = NoTx
    /\ UNCHANGED <<dbAlbums, nextPhotoId, tx>>

\* a photo is made the cover of an album
StoreSetCover(albumId, photoId) ==
    /\ tx.state = "idle"
    /\ dbAlbums' = setAlbumCover(dbAlbums, albumId, photoId)
    /\ lastTx' = NoTx
    /\ UNCHANGED <<dbPhotos, nextPhotoId, tx>>

viewVars == <<photos, analyzingIds, isAutoAnalyzing, lastAnalysisTime, timer,
              calls, loadPending, now, issued, lastDone, lastStop, lastRequest,
              pageVars>>

InitStore ==
    /\ dbAlbums = [a \in AlbumIds |-> [id |-> a, coverPhotoId |-> 0]]
    /\ \E owner \in [{1, 2, 3} -> AlbumIds] :
          dbPhotos = [k \in {1, 2, 3} |-> NewPhoto(k, owner[k], 10 * k)]
    /\ nextPhotoId = 4
    /\ tx = NoTx
    /\ lastTx = NoTx
    /\ photos = <<>>
    /\ analyzingIds = {}
    /\ isAutoAnalyzing = FALSE
    /\ lastAnalysisTime = 0
    /\ timer = NoTimer
    /\ calls = <<>>
    /\ loadPending = FALSE
    /\ now = StartTime
    /\ issued = <<>>
    /\ lastDone = NoDone
    /\ lastStop = "none"
    /\ importing = NoImport
    /\ resize = NoResize
    /\ selectedAlbumId = 0
    /\ currentAlbum = 0
    /\ fetches = <<>>
    /\ orphaned = <<>>
    /\ lastRequest = 0
    /\ lastWrite = NoWrite
    /\ currentPage = 0
    /\ removing = {}
    /\ exif = NoExif

NextStore ==
    \/ \E id \in AlbumIds : DeleteAlbumBegin(id) /\ UNCHANGED <<viewVars, restVars>>
    \/ TxDeletePhotos /\ UNCHANGED <<viewVars, restVars>>
    \/ TxDeleteAlbum /\ UNCHANGED <<viewVars, restVars>>
    \/ TxCommit /\ UNCHANGED <<viewVars, restVars>>
    \/ TxFail /\ UNCHANGED <<viewVars, restVars>>
    \/ \E a \in AlbumIds, lm \in AddTimes : StoreAddPhoto(a, lm) /\ UNCHANGED <<viewVars, restVars>>
    \/ \E id \in PhotoIds : StoreDeletePhoto(id) /\ UNCHANGED <<viewVars, restVars>>
    \/ \E a \in AlbumIds, id \in PhotoIds : StoreSetCover(a, id) /\ UNCHANGED <<viewVars, restVars>>

SpecStore == InitStore /\ [][NextStore]_vars

----------------------------------------------------------------------------
(* Image scaling: resizeImage of the captioning client, applyFilterToImage of
   the export *)

\* the sides of the images that are loaded
Dims ==
    {1, 2, 3} \cup {100 * k + e : k \in 1..MaxHundreds, e \in {-1, 0, 1}}

Caps == {MAX_SIZE, MAX_DIMENSION}

\* Math.floor in place of Math.round
Truncated(a, cap, b) == {(a * cap) \div b}

\* Math.round(a * (cap / b)).  The quotient and the product are computed in
\* double precision: when the exact value lies halfway between two integers
\* the computed one falls on either side of the half, otherwise it rounds to
\* the nearest integer.
Rounded(a, cap, b) ==
    LET n == a * cap
    IN IF (2 * n) % b = 0 /\ ((2 * n) \div b) % 2 = 1
       THEN {n \div b, n \div b + 1}
       ELSE {(2 * n + b) \div (2 * b)}

\* the canvas sizes for an image of width w and height h
ResizedDims(w, h, cap) ==
    IF w > cap \/ h > cap
    THEN IF w > h
         THEN {[width |-> cap, height |-> s] : s \in Rounded(h, cap, w)}
         ELSE {[width |-> s, height |-> cap] : s \in Rounded(w, cap, h)}
    ELSE {[width |-> w, height |-> h]}

\* img.onload of an image of w by h pixels, in resizeImage (cap MAX_SIZE) or in
\* applyFilterToImage (cap MAX_DIMENSION)
ImageLoaded(cap, w, h) ==
    /\ resize.state = "idle"
    /\ resize' = [state |-> "loaded", cap |-> cap, imgWidth |-> w, imgHeight |-> h,
                  width |-> w, height |-> h]
    /\ UNCHANGED <<storeVars, viewVars, importing, appVars, utilVars>>

\* the sides are scaled and the canvas is sized
CanvasSized ==
    /\ resize.state = "loaded"
    /\ \E d \in ResizedDims(resize.imgWidth, resize.imgHeight, resize.cap) :
          resize' = [resize EXCEPT !.state = "drawn",
                                   !.width = d.width, !.height = d.height]
    /\ UNCHANGED <<storeVars, viewVars, importing, appVars, utilVars>>

NextResize ==
    \/ \E cap \in Caps, w \in Dims, h \in Dims : ImageLoaded(cap, w, h)
    \/ CanvasSized

SpecResize == Init /\ [][NextResize]_vars

----------------------------------------------------------------------------
(* AlbumShelf: import of a new album *)

\* the selections of the file dialog: each file is an image or not, and
\* carries its lastModified
Selections ==
    UNION {[1..n -> [image : BOOLEAN, lastModified : {0}]] : n \in 1..MaxFiles}

Stamped(files) ==
    [i \in 1..Len(files) |-> [files[i] EXCEPT !.lastModified = 10 * i]]

\* files.filter(f => f.type.startsWith('image/'))
IsImage(f) == f.image
ImageFiles(files) == SelectSeq(files, IsImage)

\* ++id of the albums table; no album is deleted while albums are imported
NextAlbumId(table) ==
    CHOOSE n \in 1..(Cardinality(DOMAIN table) + 1) :
        n \notin DOMAIN table /\ \A k \in DOMAIN table : k < n

\* db.albums.add({title, createdAt, theme})
createAlbum(table, id) ==
    [k \in DOMAIN table \cup {id} |->
        IF k = id THEN [id |-> id, coverPhotoId |-> 0] ELSE table[k]]

\* the key of the add that completed first
LowestPhotoId(photoIds) ==
    CHOOSE k \in {photoIds[i] : i \in DOMAIN photoIds} :
        \A i \in DOMAIN photoIds : k <= photoIds[i]

\* photoIds[0] of the array Promise.all resolves with: the results in the
\* order of imageFiles
FirstPhotoId(photoIds) == photoIds[1]

\* handleFilesSelected up to await createAlbum(...)
FilesSelected(files) ==
    /\ importing.state = "idle"
    /\ Len(files) > 0
    /\ importing' =
          IF Len(ImageFiles(files)) = 0
          THEN [state |-> "noImages", files |-> files, imageFiles |-> <<>>,
                albumId |-> 0, pending |-> {}, photoIds |-> <<>>]
          ELSE [state |-> "creating", files |-> files,
                imageFiles |-> ImageFiles(files),
                albumId |-> 0, pending |-> {}, photoIds |-> <<>>]
    /\ UNCHANGED <<storeVars, viewVars, resize, appVars, utilVars>>

\* createAlbum settles; when it resolved, addPhotoToAlbum is called for every
\* image file at once
CreateAlbumDone(ok) ==
    /\ importing.state = "creating"
    /\ IF ok
       THEN /\ dbAlbums' = createAlbum(dbAlbums, NextAlbumId(dbAlbums))
            /\ importing' = [importing EXCEPT
                                !.state = "adding",
                                !.albumId = NextAlbumId(dbAlbums),
                                !.pending = 1..Len(importing.imageFiles)]
       ELSE /\ importing' = [importing EXCEPT !.state = "failed"]
            /\ UNCHANGED dbAlbums
    /\ UNCHANGED <<dbPhotos, nextPhotoId, tx, lastTx, viewVars, resize, appVars, utilVars>>

\* one of the pending addPhotoToAlbum calls settles.  Promise.all rejects with
\* the first rejection (the catch runs) and the other calls still complete;
\* when all have resolved, setAlbumCover is called.
AddPhotoDone(i, ok) ==
    /\ importing.state \in {"adding", "failed"}
    /\ i \in importing.pending
    /\ IF ok
       THEN /\ dbPhotos' = addPhotoToAlbum(dbPhotos, nextPhotoId, importing.albumId,
                                           importing.imageFiles[i].lastModified)
            /\ nextPhotoId' = nextPhotoId + 1
       ELSE UNCHANGED <<dbPhotos, nextPhotoId>>
    /\ importing' = [importing EXCEPT
          !.pending = importing.pending \ {i},
          !.photoIds = IF ok
                       THEN [k \in DOMAIN importing.photoIds \cup {i} |->
                               IF k = i THEN nextPhotoId ELSE importing.photoIds[k]]
                       ELSE importing.photoIds,
          !.state = IF importing.state = "failed" \/ ~ok THEN "failed"
                    ELSE IF importing.pending = {i} THEN "cover"
                    ELSE "adding"]
    /\ UNCHANGED <<dbAlbums, tx, lastTx, viewVars, resize, appVars, utilVars>>

\* setAlbumCover(albumId, photoIds[0]) settles; loadAlbums then reads the
\* albums table
SetCoverDone(ok) ==
    /\ importing.state = "cover"
    /\ IF ok
       THEN /\ dbAlbums' = setAlbumCover(dbAlbums, importing.albumId,
                                         FirstPhotoId(importing.photoIds))
            /\ importing' = [importing EXCEPT !.state = "done"]
       ELSE /\ importing' = [importing EXCEPT !.state = "failed"]
            /\ UNCHANGED dbAlbums
    /\ UNCHANGED <<dbPhotos, nextPhotoId, tx, lastTx, viewVars, resize, appVars, utilVars>>

\* the shelf over a store of two empty albums
InitImport ==
    /\ dbAlbums = [a \in AlbumIds |-> [id |-> a, coverPhotoId |-> 0]]
    /\ dbPhotos = <<>>
    /\ nextPhotoId = 1
    /\ tx = NoTx
    /\ lastTx = NoTx
    /\ photos = <<>>
    /\ analyzingIds = {}
    /\ isAutoAnalyzing = FALSE
    /\ lastAnalysisTime = 0
    /\ timer = NoTimer
    /\ calls = <<>>
    /\ loadPending = FALSE
    /\ now = StartTime
    /\ issued = <<>>
    /\ lastDone = NoDone
    /\ lastStop = "none"
    /\ importing = NoImport
    /\ resize = NoResize
    /\ selectedAlbumId = 0
    /\ currentAlbum = 0
    /\ fetches = <<>>
    /\ orphaned = <<>>
    /\ lastRequest = 0
    /\ lastWrite = NoWrite
    /\ currentPage = 0
    /\ removing = {}
    /\ exif = NoExif

NextImport ==
    \/ \E files \in Selections : FilesSelected(Stamped(files))
    \/ \E ok \in BOOLEAN : CreateAlbumDone(ok)
    \/ \E i \in 1..MaxFiles, ok \in BOOLEAN : AddPhotoDone(i, ok)
    \/ \E ok \in BOOLEAN : SetCoverDone(ok)

SpecImport == InitImport /\ [][NextImport]_vars

----------------------------------------------------------------------------
(* The shelf's view of an album *)

\* photos[0] of getAlbumPhotos: the index returns equal keys in primary key order
FirstOf(table) == CHOOSE k \in DOMAIN table : \A j \in DOMAIN table : k <= j

\* a cover lookup that shows the first photo also when the cover is not found
ShelfCoverFallback(albumId) ==
    LET album == dbAlbums[albumId]
        albumPhotos == getAlbumPhotos(albumId)
    IN IF album.coverPhotoId \in DOMAIN albumPhotos THEN album.coverPhotoId
       ELSE IF DOMAIN albumPhotos # {} THEN FirstOf(albumPhotos)
       ELSE 0

\* loadData of AlbumCover: the id of the photo whose blob becomes coverUrl, 0
\* when coverUrl stays null
ShelfCover(albumId) ==
    LET album == dbAlbums[albumId]
        albumPhotos == getAlbumPhotos(albumId)
    IN IF album.coverPhotoId # 0
       THEN IF album.coverPhotoId \in DOMAIN albumPhotos
            THEN album.coverPhotoId ELSE 0
       ELSE IF DOMAIN albumPhotos # {} THEN FirstOf(albumPhotos)
       ELSE 0

----------------------------------------------------------------------------
(* App: the shelf, the selected album and the album view it mounts *)

MaxFetches == 2         \* fetchAlbum calls waiting for the store at one time
MaxOrphaned == 1        \* requests left behind by album views that were closed

\* App renders AlbumBook when selectedAlbumId && currentAlbum, else AlbumShelf
Displayed(sel, cur) == sel # 0 /\ cur # 0

OrphanCount(id) == IF id \in DOMAIN orphaned THEN orphaned[id] ELSE 0

\* the requests in flight for a photo, whichever view issued them
InFlight(id) ==
    OrphanCount(id) + (IF id \in DOMAIN calls THEN calls[id].requests ELSE 0)

\* the pending handleAnalyze calls of a view that is unmounted go on without it
Orphan(cs) ==
    [k \in DOMAIN orphaned \cup DOMAIN cs |->
        OrphanCount(k) + (IF k \in DOMAIN cs THEN cs[k].requests ELSE 0)]

OrphanTotal(o, ids) ==
    LET RECURSIVE Sum(_)
        Sum(S) == IF S = {} THEN 0
                  ELSE LET k == CHOOSE x \in S : TRUE IN o[k] + Sum(S \ {k})
    IN Sum(ids)

\* What a render of App with the new selectedAlbumId and currentAlbum does to
\* the album view: AlbumBook is unmounted (its state is lost, its pending
\* calls go on), mounted (initial state, loadPhotos of the mount effect), or
\* kept with a new album prop (loadPhotos of the [album] effect).
Render(sel, cur) ==
    IF ~Displayed(sel, cur)
    THEN /\ orphaned' = IF Displayed(selectedAlbumId, currentAlbum)
                        THEN Orphan(calls) ELSE orphaned
         /\ photos' = <<>>
         /\ analyzingIds' = {}
         /\ calls' = <<>>
         /\ loadPending' = FALSE
         /\ currentPage' = 0
         /\ isAutoAnalyzing' = FALSE
         /\ lastAnalysisTime' = 0
         /\ timer' = NoTimer
         /\ issued' = <<>>
    ELSE IF ~Displayed(selectedAlbumId, currentAlbum)
    THEN /\ photos' = <<>>
         /\ analyzingIds' = {}
         /\ calls' = <<>>
         /\ loadPending' = TRUE
         /\ currentPage' = 0
         /\ isAutoAnalyzing' = FALSE
         /\ lastAnalysisTime' = 0
         /\ timer' = NoTimer
         /\ issued' = <<>>
         /\ UNCHANGED orphaned
    ELSE /\ loadPending' = TRUE
         /\ UNCHANGED <<photos, analyzingIds, calls, currentPage, orphaned,
                        isAutoAnalyzing, lastAnalysisTime, timer, issued>>

appFrame == <<storeVars, now, lastRequest, removing, importing, resize, utilVars>>

\* onSelectAlbum(id) of an album on the shelf: setSelectedAlbumId(id) and the
\* effect's fetchAlbum up to await getAlbums()
SelectAlbum(id) ==
    /\ ~Displayed(selectedAlbumId, currentAlbum)
    /\ id # selectedAlbumId
    /\ Len(fetches) < MaxFetches
    /\ selectedAlbumId' = id
    /\ fetches' = Append(fetches, id)
    /\ Render(id, currentAlbum)
    /\ lastDone' = NoDone
    /\ lastStop' = "none"
    /\ UNCHANGED <<currentAlbum, appFrame>>

\* onBack of the album view: setSelectedAlbumId(null), and the effect's
\* setCurrentAlbum(null)
Back ==
    /\ Displayed(selectedAlbumId, currentAlbum)
    /\ OrphanTotal(Orphan(calls), DOMAIN Orphan(calls)) <= MaxOrphaned
    /\ selectedAlbumId' = 0
    /\ currentAlbum' = 0
    /\ Render(0, 0)
    /\ lastDone' = NoDone
    /\ lastStop' = "none"
    /\ UNCHANGED <<fetches, appFrame>>

\* getAlbums() of the i-th waiting fetchAlbum resolves: the album with the id
\* the call was started for is looked up and setCurrentAlbum(found || null)
FetchAlbumResolves(i) ==
    /\ i \in 1..Len(fetches)
    /\ LET found == IF fetches[i] \in DOMAIN getAlbums THEN fetches[i] ELSE 0 IN
       /\ currentAlbum' = found
       /\ Render(selectedAlbumId, found)
    /\ fetches' = SubSeq(fetches, 1, i - 1) \o SubSeq(fetches, i + 1, Len(fetches))
    /\ lastDone' = NoDone
    /\ lastStop' = "none"
    /\ UNCHANGED <<selectedAlbumId, appFrame>>

\* loadPhotos of the album view: getAlbumPhotos(album.id) resolves, sort, setPhotos
BookPhotosLoaded ==
    /\ Displayed(selectedAlbumId, currentAlbum)
    /\ loadPending
    /\ photos' = LoadedPhotos(dbPhotos, currentAlbum)
    /\ loadPending' = FALSE
    /\ timer' = AutoAnalyzeEffect(timer, isAutoAnalyzing, photos', analyzingIds,
                                  now, lastAnalysisTime)
    /\ lastDone' = NoDone
    /\ lastStop' = "none"
    /\ UNCHANGED <<analyzingIds, calls, currentPage, isAutoAnalyzing,
                   lastAnalysisTime, issued, appVars, appFrame>>

\* The rest of a handleAnalyze call whose view was unmounted: the result is
\* written to the store; the state updates go to a component that is gone.
OrphanCompletes(id, resp, ok) ==
    /\ OrphanCount(id) > 0
    /\ LET r == analyzePhoto(resp)
           wrote == r.ret # "throw" /\ ok
       IN dbPhotos' = IF wrote
                      THEN updatePhotoMetadata(dbPhotos, id, HandleAnalyzeMetadata(r))
                      ELSE dbPhotos
    /\ orphaned' = [k \in {x \in DOMAIN orphaned : x # id \/ orphaned[x] > 1} |->
                        IF k = id THEN orphaned[k] - 1 ELSE orphaned[k]]
    /\ lastDone' = NoDone
    /\ lastStop' = "none"
    /\ UNCHANGED <<dbAlbums, nextPhotoId, tx, lastTx, photos, analyzingIds,
                   isAutoAnalyzing, lastAnalysisTime, timer, calls, loadPending,
                   now, histVars, pageVars, importing, resize, selectedAlbumId,
                   currentAlbum, fetches, utilVars>>

\* the shelf is shown over a store of two albums with a photo each
InitApp ==
    /\ dbAlbums = [a \in AlbumIds |-> [id |-> a, coverPhotoId |-> 0]]
    /\ dbPhotos = InitEditPhotos
    /\ nextPhotoId = 4
    /\ tx = NoTx
    /\ lastTx = NoTx
    /\ photos = <<>>
    /\ analyzingIds = {}
    /\ isAutoAnalyzing = FALSE
    /\ lastAnalysisTime = 0
    /\ timer = NoTimer
    /\ calls = <<>>
    /\ loadPending = FALSE
    /\ now = StartTime
    /\ issued = <<>>
    /\ lastDone = NoDone
    /\ lastStop = "none"
    /\ importing = NoImport
    /\ resize = NoResize
    /\ selectedAlbumId = 0
    /\ currentAlbum = 0
    /\ fetches = <<>>
    /\ orphaned = <<>>
    /\ lastRequest = 0
    /\ lastWrite = NoWrite
    /\ currentPage = 0
    /\ removing = {}
    /\ exif = NoExif

\* a full answer
AppResponses == {r \in Responses : r.kind = "ok" /\ "location" \in DOMAIN r.body}

\* albums are opened and closed while photos are analysed by hand and by the
\* scheduler
NextApp ==
    \/ \E a \in AlbumIds : SelectAlbum(a)
    \/ Back
    \/ \E i \in 1..MaxFetches : FetchAlbumResolves(i)
    \/ BookPhotosLoaded
    \/ Displayed(selectedAlbumId, currentAlbum) /\ ToggleAuto /\ UNCHANGED restVars
    \/ TimerFires /\ UNCHANGED restVars
    \/ \E id \in PhotoIds : ManualAnalyze(id) /\ UNCHANGED restVars
    \/ \E id \in PhotoIds, resp \in AppResponses, ok \in BOOLEAN :
          AnalysisCompletes(id, resp, ok) /\ UNCHANGED restVars
    \/ \E id \in PhotoIds, resp \in AppResponses, ok \in BOOLEAN :
          OrphanCompletes(id, resp, ok)

SpecApp == InitApp /\ [][NextApp]_vars

----------------------------------------------------------------------------
(* The pages of the album view *)

MaxRemoving == 2        \* removals confirmed and waiting for the store at one time

Min(a, b) == IF a <= b THEN a ELSE b

pageFrame ==
    <<dbAlbums, nextPhotoId, tx, lastTx, analyzingIds, isAutoAnalyzing,
      lastAnalysisTime, calls, loadPending, now, histVars, restVars>>

\* The Remove button of a photo on the open page and Remove in the dialog:
\* onConfirm of handleRemovePhoto up to await deletePhoto(photoId).  The
\* closure holds currentPhotos and currentPage of the render the button was
\* clicked in; the dialog closes without waiting for onConfirm.
ConfirmRemove(id) ==
    /\ \E i \in 1..Len(CurrentPhotos(photos, currentPage)) :
          CurrentPhotos(photos, currentPage)[i].id = id
    /\ \A r \in removing : r.id # id
    /\ Cardinality(removing) < MaxRemoving
    /\ removing' = removing \cup
          {[id |-> id, len |-> Len(CurrentPhotos(photos, currentPage)),
            page |-> currentPage]}
    /\ lastDone' = NoDone
    /\ lastStop' = "none"
    /\ UNCHANGED <<dbPhotos, photos, timer, currentPage, pageFrame>>

\* deletePhoto of a confirmed removal resolves (ok) or rejects: the rest of
\* onConfirm
RemoveDone(r, ok) ==
    /\ r \in removing
    /\ tx.state = "idle"
    /\ removing' = removing \ {r}
    /\ dbPhotos' = IF ok THEN deletePhoto(dbPhotos, r.id) ELSE dbPhotos
    /\ photos' = AfterWrite(ok, photos, FilterOut(photos, r.id))
    /\ currentPage' = AfterWrite(ok, currentPage,
                          PageAfterRemove(r.len, r.page, currentPage))
    /\ timer' = AfterWrite(ok, timer,
                    AutoAnalyzeEffect(timer, isAutoAnalyzing, photos',
                                      analyzingIds, now, lastAnalysisTime))
    /\ lastDone' = NoDone
    /\ lastStop' = "none"
    /\ UNCHANGED pageFrame

\* the right navigation button: setCurrentPage(p => Math.min(totalPages - 1, p + 1));
\* the buttons are rendered only for an album with photos
PageNext ==
    /\ photos # <<>>
    /\ currentPage # TotalPages(photos) - 1
    /\ currentPage' = Min(TotalPages(photos) - 1, currentPage + 1)
    /\ lastDone' = NoDone
    /\ lastStop' = "none"
    /\ UNCHANGED <<dbPhotos, photos, timer, removing, pageFrame>>

\* the left navigation button: setCurrentPage(p => Math.max(0, p - 1))
PagePrev ==
    /\ photos # <<>>
    /\ currentPage # 0
    /\ currentPage' = Max(0, currentPage - 1)
    /\ lastDone' = NoDone
    /\ lastStop' = "none"
    /\ UNCHANGED <<dbPhotos, photos, timer, removing, pageFrame>>

\* an album of MaxPhotoId photos, open on its first page
InitPagesPhotos == [k \in 1..MaxPhotoId |-> NewPhoto(k, OpenAlbum, 10 * k)]

InitPages ==
    /\ dbAlbums = [a \in AlbumIds |-> [id |-> a, coverPhotoId |-> 0]]
    /\ dbPhotos = InitPagesPhotos
    /\ nextPhotoId = MaxPhotoId + 1
    /\ tx = NoTx
    /\ lastTx = NoTx
    /\ photos = LoadedPhotos(InitPagesPhotos, OpenAlbum)
    /\ analyzingIds = {}
    /\ isAutoAnalyzing = FALSE
    /\ lastAnalysisTime = 0
    /\ timer = NoTimer
    /\ calls = <<>>
    /\ loadPending = FALSE
    /\ now = StartTime
    /\ issued = <<>>
    /\ lastDone = NoDone
    /\ lastStop = "none"
    /\ importing = NoImport
    /\ resize = NoResize
    /\ selectedAlbumId = OpenAlbum
    /\ currentAlbum = OpenAlbum
    /\ fetches = <<>>
    /\ orphaned = <<>>
    /\ lastRequest = 0
    /\ lastWrite = NoWrite
    /\ currentPage = 0
    /\ removing = {}
    /\ exif = NoExif

RemovalClosures ==
    [id : PhotoIds, len : 1..photosPerPage, page : 0..TotalPages(InitPagesPhotos)]

\* pages are turned and photos removed
NextPages ==
    \/ \E id \in PhotoIds : ConfirmRemove(id)
    \/ \E r \in RemovalClosures, ok \in BOOLEAN : RemoveDone(r, ok)
    \/ PageNext
    \/ PagePrev

SpecPages == InitPages /\ [][NextPages]_vars

----------------------------------------------------------------------------
(* The metadata extractor *)

\* The files handed to getExifData: the container format, the DateTimeOriginal
\* tag (absent, "YYYY:MM:DD HH:MM:SS", or a string of another shape), the GPS
\* tags (absent, latitude and longitude with their references, or without
\* them) and whether the metadata segment is damaged.
ExifFiles ==
    [format : {"jpeg", "png", "text"},
     date : {"none", "valid", "malformed"},
     gps : {"none", "full", "partial"},
     corrupt : BOOLEAN]

\* the values of the tags of the files above: a capture time, and latitude and
\* longitude as <<degrees, minutes, seconds>> with reference S and E
ExifDate == 50
ExifDMS == [lat |-> <<33, 55, 30>>, latRef |-> "S", lon |-> <<18, 25, 12>>, lonRef |-> "E"]

\* a record without the fields that are undefined: {} is the empty function
Defined(date, latitude, longitude) ==
    LET rec == [date |-> date, latitude |-> latitude, longitude |-> longitude]
    IN [k \in {f \in DOMAIN rec : rec[f] # <<>>} |-> rec[k][1]]

\* convertDMStoDD(dms, ref), in arc seconds: dms[0] + dms[1]/60 + dms[2]/3600,
\* negated for S and W
convertDMStoDD(dms, ref) ==
    LET dd == dms[1] * 3600 + dms[2] * 60 + dms[3]
    IN IF ref = "S" \/ ref = "W" THEN 0 - dd ELSE dd

\* What exifr.parse(file, options) settles with: a rejection for a file it
\* cannot read, undefined when none of the picked tags is found, else an
\* object with DateTimeOriginal (a Date, or the raw string when it cannot be
\* revived) and latitude and longitude in decimal degrees.
ExifrParse(file) ==
    IF file.corrupt \/ file.format = "text" THEN [kind |-> "rejects"]
    ELSE IF file.date = "none" /\ file.gps # "full" THEN [kind |-> "undefined"]
    ELSE [kind |-> "object",
          DateTimeOriginal |->
              IF file.date = "valid" THEN [type |-> "Date", value |-> ExifDate]
              ELSE IF file.date = "malformed" THEN [type |-> "string", value |-> 0]
              ELSE [type |-> "undefined", value |-> 0],
          latitude |-> IF file.gps = "full"
                       THEN <<convertDMStoDD(ExifDMS.lat, ExifDMS.latRef)>> ELSE <<>>,
          longitude |-> IF file.gps = "full"
                        THEN <<convertDMStoDD(ExifDMS.lon, ExifDMS.lonRef)>> ELSE <<>>]

\* getExifData of exifService.ts after await exifr.parse: how its promise settles
getExifData(output) ==
    IF output.kind = "rejects" THEN [state |-> "resolved", value |-> <<>>]
    ELSE IF output.kind = "undefined" THEN [state |-> "resolved", value |-> <<>>]
    ELSE [state |-> "resolved",
          value |-> Defined(IF output.DateTimeOriginal.type = "Date"
                            THEN <<output.DateTimeOriginal.value>> ELSE <<>>,
                            output.latitude, output.longitude)]

\* What EXIF.getData(file, callback) of exif-js does: it throws at the call,
\* or it reads the file and invokes the callback with the tags it found (none
\* for a file that is not a JPEG), or the read or the parse fails after the
\* call has returned and the callback is never invoked: the library has no
\* error callback.
ExifJsGetData(file) ==
    IF file.corrupt THEN {[kind |-> "throws"], [kind |-> "never"]}
    ELSE IF file.format # "jpeg" THEN {[kind |-> "callback", date |-> "none", gps |-> "none"]}
    ELSE {[kind |-> "callback", date |-> file.date, gps |-> file.gps]}

\* getExifData of the exif-js revision: how its promise settles, "pending"
\* when nothing resolves it
getExifDataExifJs(outcome) ==
    IF outcome.kind = "throws" THEN [state |-> "resolved", value |-> <<>>]
    ELSE IF outcome.kind = "never" THEN [state |-> "pending"]
    ELSE [state |-> "resolved",
          value |-> Defined(IF outcome.date = "valid" THEN <<ExifDate>> ELSE <<>>,
                            IF outcome.gps = "full"
                            THEN <<convertDMStoDD(ExifDMS.lat, ExifDMS.latRef)>>
                            ELSE <<>>,
                            IF outcome.gps = "full"
                            THEN <<convertDMStoDD(ExifDMS.lon, ExifDMS.lonRef)>>
                            ELSE <<>>)]

\* a parse failure: the metadata cannot be read from the file
ParseFailure(file) == file.corrupt \/ file.format = "text"

\* getExifData(file) is called, in one of its two revisions
ExifCalled(rev, file) ==
    /\ exif.state \in {"idle", "resolved"}
    /\ exif' = [state |-> "called", rev |-> rev, file |-> file]
    /\ UNCHANGED <<storeVars, viewVars, importing, resize, appVars, lastWrite>>

\* the library has done what it does with the file
ExifSettles ==
    /\ exif.state = "called"
    /\ \E settled \in IF exif.rev = "exifr"
                       THEN {getExifData(ExifrParse(exif.file))}
                       ELSE {getExifDataExifJs(o) : o \in ExifJsGetData(exif.file)} :
          exif' = [state |-> settled.state, rev |-> exif.rev, file |-> exif.file,
                   value |-> IF settled.state = "resolved" THEN settled.value ELSE <<>>]
    /\ UNCHANGED <<storeVars, viewVars, importing, resize, appVars, lastWrite>>

NextExif ==
    \/ \E rev \in {"exifr", "exifjs"}, file \in ExifFiles : ExifCalled(rev, file)
    \/ ExifSettles

SpecExif == InitImport /\ [][NextExif]_vars

----------------------------------------------------------------------------
(* Updates of the store *)

\* updateAlbum(id, changes): db.albums.update(id, changes)
updateAlbum(table, id, changes) == TableUpdate(table, id, changes)

\* the metadata the callers of updatePhotoMetadata pass: nothing, a filter, the
\* result of an analysis, the fields of the edit form
PhotoChanges ==
    { <<>>,
      [filter |-> "sepia"],
      [description |-> "ai", location |-> "aiLoc"],
      [description |-> "user"] }

\* the changes the callers of updateAlbum pass
AlbumChanges ==
    { [title |-> "renamed"],
      [title |-> "again", theme |-> "minimal"] }

\* updatePhotoMetadata(id, m) has completed
StoreUpdatePhoto(id, m) ==
    /\ tx.state = "idle"
    /\ dbPhotos' = updatePhotoMetadata(dbPhotos, id, m)
    /\ lastWrite' = [table |-> "photos", id |-> id, changes |-> m,
                     photos |-> dbPhotos, albums |-> dbAlbums]
    /\ UNCHANGED <<dbAlbums, nextPhotoId, tx, lastTx, viewVars, importing, resize,
                   appVars, exif>>

\* updateAlbum(id, c) has completed
StoreUpdateAlbum(id, c) ==
    /\ tx.state = "idle"
    /\ dbAlbums' = updateAlbum(dbAlbums, id, c)
    /\ lastWrite' = [table |-> "albums", id |-> id, changes |-> c,
                     photos |-> dbPhotos, albums |-> dbAlbums]
    /\ UNCHANGED <<dbPhotos, nextPhotoId, tx, lastTx, viewVars, importing, resize,
                   appVars, exif>>

\* a store of two titled albums with a photo each
InitMerge ==
    /\ dbAlbums = [a \in AlbumIds |->
                      [id |-> a, coverPhotoId |-> 0, title |-> "album",
                       theme |-> "vintage"]]
    /\ dbPhotos = InitEditPhotos
    /\ nextPhotoId = 4
    /\ tx = NoTx
    /\ lastTx = NoTx
    /\ photos = <<>>
    /\ analyzingIds = {}
    /\ isAutoAnalyzing = FALSE
    /\ lastAnalysisTime = 0
    /\ timer = NoTimer
    /\ calls = <<>>
    /\ loadPending = FALSE
    /\ now = StartTime
    /\ issued = <<>>
    /\ lastDone = NoDone
    /\ lastStop = "none"
    /\ importing = NoImport
    /\ resize = NoResize
    /\ selectedAlbumId = 0
    /\ currentAlbum = 0
    /\ fetches = <<>>
    /\ orphaned = <<>>
    /\ lastRequest = 0
    /\ lastWrite = NoWrite
    /\ currentPage = 0
    /\ removing = {}
    /\ exif = NoExif

\* update calls complete one after the other, on records that exist and on
\* keys that do not
NextMerge ==
    \/ \E id \in PhotoIds, m \in PhotoChanges : StoreUpdatePhoto(id, m)
    \/ \E id \in AlbumIds \cup {3}, c \in AlbumChanges : StoreUpdateAlbum(id, c)

SpecMerge == InitMerge /\ [][NextMerge]_vars

----------------------------------------------------------------------------
(* Claims *)

Stored(id) == StoredPhoto(dbPhotos, id)
Listed(id) == ListedPhoto(photos, id)
Done == lastDone.id # 0

\* C1: after an analysis attempt that ends with success or a non-fatal failure
\* (and whose store write went through) the photo's processed flag is true;
\* after an attempt that the service answered with a quota rejection the flag
\* has the value it had before.
C1_ProcessedAfterAttempt ==
    (Done /\ lastDone.id \in DOMAIN dbPhotos) =>
        IF lastDone.kind = "quota"
        THEN Stored(lastDone.id).processed = lastDone.store.processed
        ELSE lastDone.wrote => Stored(lastDone.id).processed

\* C2: any two requests the scheduler issues in a run start at least
\* RATE_LIMIT_DELAY apart, whatever re-renders happen in between.
C2_MinInterval ==
    \A i, j \in 1..Len(issued) :
        i < j => issued[j].time - issued[i].time >= RATE_LIMIT_DELAY

\* two requests of one run, with a photo edited by the user
C2_Witness ==
    /\ Len(issued) >= 2
    /\ \E i \in 1..Len(photos) : photos[i].description = "user"

\* C3: when a request of an automatic run ends in a quota rejection the
\* scheduler stops at once (run flag false, nothing scheduled) and the photo of
\* the request is not marked processed.
C3_FatalStopsRun ==
    (Done /\ lastDone.by = "auto" /\ ~lastDone.stopped /\ lastDone.kind = "quota"
          /\ lastDone.id \in DOMAIN dbPhotos) =>
        /\ ~isAutoAnalyzing
        /\ ~timer.armed
        /\ Stored(lastDone.id).processed = lastDone.store.processed

\* C4: under automatic scheduling alone at most one photo id is in flight, and
\* the timer is armed only while no request is in flight.
C4_OneInFlight ==
    /\ Cardinality(analyzingIds) <= 1
    /\ timer.armed => (analyzingIds = {} /\ timer.analyzingIds = {})

\* a request in flight while another unprocessed photo waits and the run is on
C4_Witness ==
    /\ isAutoAnalyzing
    /\ Cardinality(analyzingIds) = 1
    /\ FindNext(photos, analyzingIds) # 0

\* C5: while the run flag is off no timer is pending and no request is issued,
\* and a request that was in flight when the user stopped the run still has its
\* result written to the store and applied to the in-memory photo.
C5_StopKeepsInFlight ==
    /\ ~isAutoAnalyzing => ~timer.armed
    /\ \A i \in 1..Len(issued) : issued[i].running
    /\ (Done /\ lastDone.stopped /\ lastDone.wrote) =>
          /\ lastDone.id \in DOMAIN dbPhotos =>
                /\ Stored(lastDone.id).processed
                /\ Stored(lastDone.id).description \in {"ai", "unavailable"}
          /\ lastDone.mem # NoPhoto =>
                /\ Listed(lastDone.id).processed
                /\ Listed(lastDone.id).description \in {"ai", "unavailable"}

\* the run is stopped and the request that was in flight at the stop has just
\* completed and been applied
C5_Witness ==
    /\ Done /\ lastDone.stopped /\ lastDone.wrote
    /\ ~isAutoAnalyzing
    /\ Stored(lastDone.id).description = "ai"
    /\ Listed(lastDone.id).description = "ai"

\* C6: after deleteAlbum(id) succeeds no photo with albumId = id and no album
\* with that id exists, and the other albums and the photos of other albums
\* are as before.
C6_DeleteAlbumRemovesAll ==
    lastTx.state = "committed" =>
        /\ \A k \in DOMAIN dbPhotos : dbPhotos[k].albumId # lastTx.id
        /\ lastTx.id \notin DOMAIN dbAlbums
        /\ \A a \in DOMAIN lastTx.albums \ {lastTx.id} :
              a \in DOMAIN dbAlbums /\ dbAlbums[a] = lastTx.albums[a]
        /\ \A k \in DOMAIN lastTx.photos :
              lastTx.photos[k].albumId # lastTx.id =>
                  k \in DOMAIN dbPhotos /\ dbPhotos[k] = lastTx.photos[k]

\* an album that held photos was deleted while another album holds photos
C6_Witness ==
    /\ lastTx.state = "committed"
    /\ \E k \in DOMAIN lastTx.photos : lastTx.photos[k].albumId = lastTx.id
    /\ \E k \in DOMAIN lastTx.photos :
          lastTx.photos[k].albumId # lastTx.id /\ k # lastTx.id
    /\ lastTx.id \in DOMAIN lastTx.photos

\* C7: when deleteAlbum(id) fails at any step both collections are exactly as
\* they were before the call.
C7_FailedDeleteChangesNothing ==
    lastTx.state = "failed" =>
        /\ dbPhotos = lastTx.photos
        /\ dbAlbums = lastTx.albums

\* the transaction failed after its photos delete, on an album with photos
C7_Witness ==
    /\ lastTx.state = "failed"
    /\ lastTx.at \in {"photosDeleted", "albumDeleted"}
    /\ \E k \in DOMAIN dbPhotos : dbPhotos[k].albumId = lastTx.id

\* C8: when an attempt ends in a non-fatal failure the only field of the photo
\* that changes, in the store and in the in-memory list, is processed.
C8_FailureChangesOnlyProcessed ==
    (Done /\ lastDone.kind \in NonFatalKinds /\ lastDone.wrote) =>
        /\ lastDone.id \in DOMAIN dbPhotos =>
              Stored(lastDone.id) = [lastDone.store EXCEPT !.processed = TRUE]
        /\ lastDone.mem # NoPhoto =>
              Listed(lastDone.id) = [lastDone.mem EXCEPT !.processed = TRUE]

\* C9: within one run no photo is requested twice.
C9_NoPhotoTwice ==
    \A i, j \in 1..Len(issued) : i < j => issued[i].id # issued[j].id

\* C10 as claimed: every request of a run is for the first unprocessed photo of
\* the list that is not in flight, and the timestamps of the requested photos
\* never decrease.
C10_AscendingOrder ==
    /\ \A i \in 1..Len(issued) : issued[i].first
    /\ \A i, j \in 1..Len(issued) :
          i < j => issued[i].timestamp <= issued[j].timestamp

\* C10 as amended: every request of a run is for the first unprocessed photo of
\* the list that is not in flight, and its timestamp is not smaller than that of
\* an earlier request of the run that was issued when the photo was already in
\* the list.
C10_AscendingAmongListed ==
    /\ \A i \in 1..Len(issued) : issued[i].first
    /\ \A i, j \in 1..Len(issued) :
          (i < j /\ issued[j].id \in issued[i].listed) =>
              issued[i].timestamp <= issued[j].timestamp

\* two different photos requested in one run, the second already listed at the
\* first request, after a photo was added to the album
C10_Witness ==
    /\ Len(issued) >= 2
    /\ issued[2].id # issued[1].id
    /\ issued[2].id \in issued[1].listed
    /\ nextPhotoId > 4

\* the photos of the open album that the store holds unprocessed and that are
\* not in flight
UnprocessedStored ==
    {k \in DOMAIN dbPhotos :
        /\ dbPhotos[k].albumId = OpenAlbum
        /\ ~dbPhotos[k].processed
        /\ k \notin analyzingIds}

\* C11: a run stops as Completed only when the album holds no unprocessed
\* photo that is not in flight: no such photo is in the store, or in the
\* in-memory list, when processNext ends the run.
C11_CompletedWhenNoneLeft ==
    lastStop = "Completed" =>
        /\ FindNext(photos, analyzingIds) = 0
        /\ UnprocessedStored = {}

\* C12: every scheduler cycle of a run makes progress, so the run terminates:
\* after a request of the run has completed (and the user has not stopped the
\* run) either the run is stopped or the photo of the request is processed in
\* the list; and when the run stops as Completed every photo of the album is
\* processed in the store.
C12_RunTerminates ==
    /\ (Done /\ lastDone.by = "auto" /\ ~lastDone.stopped /\ lastDone.mem # NoPhoto) =>
          (~isAutoAnalyzing \/ Listed(lastDone.id).processed)
    /\ lastStop = "Completed" =>
          \A k \in DOMAIN dbPhotos :
              dbPhotos[k].albumId = OpenAlbum => dbPhotos[k].processed

\* C13: no step turns the processed flag of a stored photo from true to false,
\* and every step that changes a stored photo leaves it processed.
C13_ProcessedNeverReset ==
    [][\A k \in DOMAIN dbPhotos \cap DOMAIN dbPhotos' :
          /\ dbPhotos[k].processed => dbPhotos'[k].processed
          /\ dbPhotos'[k] # dbPhotos[k] => dbPhotos'[k].processed]_vars

\* a processed photo that was then edited and given a filter, with a cover
\* set and a photo added to the album and loaded
C13_Witness ==
    /\ Stored(1).processed
    /\ Stored(1).description = "user"
    /\ Stored(1).filter = "sepia"
    /\ dbAlbums[OpenAlbum].coverPhotoId # 0
    /\ \E i \in 1..Len(photos) : photos[i].id >= MaxPhotoId

\* C14: the processed flag of a stored photo turns from false to true only in
\* a step that completes an analysis attempt for that photo.
C14_ProcessedOnlyByAnalysis ==
    [][\A k \in DOMAIN dbPhotos \cap DOMAIN dbPhotos' :
          (~dbPhotos[k].processed /\ dbPhotos'[k].processed) => lastDone'.id = k]_vars

\* what handleAnalyze makes of a return of analyzePhoto: a result, a non-fatal
\* failure (null, or an error other than the quota error) or the fatal failure
Outcome(r) ==
    IF r.ret = "value" THEN "success"
    ELSE IF r.ret = "throw" /\ r.message = "FATAL_QUOTA_EXCEEDED" THEN "fatal"
    ELSE "nonfatal"

\* C15: analyzePhoto reports a parsed body as a success, a malformed or empty
\* body as a non-fatal failure and a quota rejection as the fatal failure.
C15_ThreeOutcomes ==
    Done =>
        \A resp \in Responses :
            resp.kind = lastDone.kind =>
                /\ resp.kind = "ok" => Outcome(analyzePhoto(resp)) = "success"
                /\ resp.kind \in {"malformed", "empty"} =>
                      Outcome(analyzePhoto(resp)) = "nonfatal"
                /\ resp.kind = "quota" => Outcome(analyzePhoto(resp)) = "fatal"

\* C16: the in-memory photo list changes only in a step in which the store
\* write of the handler went through (or in a reload); a step that leaves the
\* store as it was leaves the list as it was.
C16_ListChangesAfterWrite ==
    [][photos' # photos => (dbPhotos' # dbPhotos \/ loadPending)]_vars

\* an analysis whose store write was rejected has just completed, on a photo
\* that is still unprocessed in the list, after another handler changed the list
C16_Witness ==
    /\ Done /\ ~lastDone.wrote
    /\ lastDone.mem # NoPhoto
    /\ Listed(lastDone.id) = lastDone.mem
    /\ ~Listed(lastDone.id).processed
    /\ Listed(lastDone.id).filter = "sepia"

\* C17: when a store write of the import of a new album was rejected, the
\* store holds neither the new album nor a photo of it.
C17_FailedImportLeavesNothing ==
    importing.state = "failed" =>
        /\ importing.albumId \notin DOMAIN dbAlbums
        /\ \A k \in DOMAIN dbPhotos : dbPhotos[k].albumId # importing.albumId

\* C18: after a successful import the cover of the new album is the photo
\* record created from the first image file of the selection.
C18_CoverIsFirstImage ==
    importing.state = "done" =>
        LET cover == dbAlbums[importing.albumId].coverPhotoId
            firstImage == CHOOSE i \in 1..Len(importing.files) :
                              /\ importing.files[i].image
                              /\ \A j \in 1..(i - 1) : ~importing.files[j].image
        IN /\ cover \in DOMAIN dbPhotos
           /\ dbPhotos[cover].albumId = importing.albumId
           /\ dbPhotos[cover].timestamp = importing.files[firstImage].lastModified

\* an import has succeeded whose selection starts with a file that is not an
\* image and whose first image file was not the first to be stored
C18_Witness ==
    /\ importing.state = "done"
    /\ ~importing.files[1].image
    /\ Len(importing.imageFiles) >= 2
    /\ importing.photoIds[1] > importing.photoIds[2]

Nearest(s, n, d) == 2 * (s * d - n) <= d /\ 2 * (n - s * d) <= d

C28_RemovedStaysRemoved ==
    (Done /\ lastDone.store = NoPhoto) =>
        /\ lastDone.id \notin DOMAIN dbPhotos
        /\ Listed(lastDone.id) = NoPhoto
        /\ (isAutoAnalyzing /\ analyzingIds = {}) =>
              /\ timer.armed
              /\ LET i == FindNext(timer.photos, timer.analyzingIds) IN
                 i # 0 => /\ timer.photos[i].id # lastDone.id
                          /\ ~timer.photos[i].processed
                          /\ timer.photos[i].id \in DOMAIN dbPhotos

\* a request of the scheduler has completed with a description for a photo
\* removed meanwhile, and the scheduler is armed for another photo
C28_Witness ==
    /\ Done /\ lastDone.store = NoPhoto /\ lastDone.by = "auto"
    /\ lastDone.kind = "ok" /\ lastDone.wrote
    /\ lastDone.mem = NoPhoto
    /\ isAutoAnalyzing /\ timer.armed
    /\ FindNext(timer.photos, timer.analyzingIds) # 0

\* C27: the first request of a run started after an earlier run of the same
\* open view starts at least RATE_LIMIT_DELAY after the start of the last
\* request of that earlier run (and so does every later request of the run).
C27_RestartKeepsInterval ==
    \A i \in 1..Len(issued) :
        issued[i].prev # 0 => issued[i].time - issued[i].prev >= RATE_LIMIT_DELAY

\* the scheduler was stopped and started again, and the first request of the
\* new run started exactly the minimum interval after the last one of the
\* run before
C27_Witness ==
    /\ Len(issued) = 1
    /\ issued[1].prev # 0
    /\ issued[1].time = issued[1].prev + RATE_LIMIT_DELAY
    /\ lastAnalysisTime = issued[1].time

\* C26: when no analysis call, no reload and no store transaction is pending,
\* every photo of the in-memory list has the processed flag, filter,
\* description, location and timestamp of its record in the store.
C26_MemoryEqualsStore ==
    (calls = <<>> /\ ~loadPending /\ tx.state = "idle") =>
        \A i \in 1..Len(photos) :
            photos[i].id \in DOMAIN dbPhotos =>
                LET rec == dbPhotos[photos[i].id] IN
                /\ photos[i].processed = rec.processed
                /\ photos[i].filter = rec.filter
                /\ photos[i].description = rec.description
                /\ photos[i].location = rec.location
                /\ photos[i].timestamp = rec.timestamp

C25_InFlightExact ==
    /\ analyzingIds = DOMAIN calls
    /\ Done => lastDone.id \notin analyzingIds
    /\ (isAutoAnalyzing /\ calls = <<>>) => (analyzingIds = {} /\ timer.armed)

\* a call of the scheduler has ended with its store write rejected, and the
\* scheduler is armed again with nothing in flight
C25_Witness ==
    /\ Done /\ ~lastDone.wrote /\ lastDone.by = "auto"
    /\ analyzingIds = {}
    /\ isAutoAnalyzing /\ timer.armed
    /\ ~Listed(lastDone.id).processed

C29_ShownIsSelected ==
    Displayed(selectedAlbumId, currentAlbum) => currentAlbum = selectedAlbumId

\* C30: the page index of the album view is never negative, and it is below
\* the number of pages whenever the list holds a photo.
C30_PageInRange ==
    /\ 0 <= currentPage
    /\ photos # <<>> => currentPage < TotalPages(photos)

\* C22: the promise of getExifData is never rejected and never left pending
\* once the library is done with the file, and for a file whose metadata
\* cannot be read it resolves to the empty record.
C22_NeverFailsCaller ==
    /\ exif.state \notin {"rejected", "pending"}
    /\ (exif.state = "resolved" /\ ParseFailure(exif.file)) => exif.value = <<>>

\* the record rec after a write of changes (forced holds the fields the
\* operation sets on its own): the named fields have the written values and
\* every other field the value it had
MergedFrom(rec, before, changes, forced) ==
    /\ DOMAIN rec = DOMAIN before
    /\ \A f \in DOMAIN rec :
          rec[f] = IF f \in DOMAIN changes THEN changes[f]
                   ELSE IF f \in DOMAIN forced THEN forced[f]
                   ELSE before[f]

\* C23: after updatePhotoMetadata(id, m) or updateAlbum(id, c) the record with
\* that id has the values of the call in the fields the call names (and
\* processed = true for a photo), whatever earlier writes stored there, and
\* its other fields as before; every other record of the table and the other
\* table are as before; a call for a key that is absent changes nothing.
C23_UpdateMerges ==
    /\ lastWrite.table = "photos" =>
          /\ dbAlbums = lastWrite.albums
          /\ DOMAIN dbPhotos = DOMAIN lastWrite.photos
          /\ \A k \in DOMAIN dbPhotos :
                IF k = lastWrite.id
                THEN MergedFrom(dbPhotos[k], lastWrite.photos[k], lastWrite.changes,
                                [processed |-> TRUE])
                ELSE dbPhotos[k] = lastWrite.photos[k]
    /\ lastWrite.table = "albums" =>
          /\ dbPhotos = lastWrite.photos
          /\ DOMAIN dbAlbums = DOMAIN lastWrite.albums
          /\ \A a \in DOMAIN dbAlbums :
                IF a = lastWrite.id
                THEN MergedFrom(dbAlbums[a], lastWrite.albums[a], lastWrite.changes,
                                <<>>)
                ELSE dbAlbums[a] = lastWrite.albums[a]

\* a write of a description has completed on a photo whose description and
\* filter were stored by earlier writes, after an album was renamed twice
C23_Witness ==
    /\ lastWrite.table = "photos"
    /\ lastWrite.id \in DOMAIN dbPhotos
    /\ lastWrite.changes = [description |-> "user"]
    /\ lastWrite.photos[lastWrite.id].description = "ai"
    /\ lastWrite.photos[lastWrite.id].filter = "sepia"
    /\ dbPhotos[lastWrite.id].description = "user"
    /\ dbPhotos[lastWrite.id].location = "aiLoc"
    /\ \E a \in DOMAIN dbAlbums :
          dbAlbums[a].title = "renamed" /\ dbAlbums[a].theme = "minimal"

====
